---- MODULE Spec2Model ----
(***************************************************************************)
(* Model of the client-side QR encoder of                                  *)
(* src/PatientBelongingsInventory-preview.jsx (the QRCode closure, lines   *)
(* 4-137).  One encode call, QRCode.generate(text), is a run of the state  *)
(* machine below: version selection, matrix allocation, the three finder   *)
(* stamps, the timing pattern, the alignment stamps (one per position      *)
(* pair), the bit stream, the zigzag data placement (one 2-column strip    *)
(* per step) and the return.  FnSpec applies the encoder's pure functions  *)
(* to every payload length, ConcSpec interleaves the steps of two encode   *)
(* calls, and AppSpec is the inventory page of src/src/App.jsx with its    *)
(* AI request and its QR modal.  CardSpec is the same page with the forms  *)
(* of its cards, SpeechSpec the page's record button with the browser's    *)
(* speech recognizer, and PreviewSpec the preview app, whose QR modal      *)
(* calls the encoder.                                                      *)
(*                                                                         *)
(* A matrix cell is JS null, true or false; they are written Null, Dark    *)
(* and Light here (the renderer paints a true cell black).                 *)
(***************************************************************************)
EXTENDS Integers, Sequences, FiniteSets, TLC

\* ------------------------------------------------------------------ bounds
\* Payload lengths of the encode runs: for each version the lengths from
\* caps[v] - MaxSlack to caps[v], the lengths caps[20]+1 .. caps[20]+MaxOver
\* beyond the table, and the lengths 0, 1 and 200 of the spec's scenarios.
MaxSlack == 1
MaxOver == 2
\* Payload byte i (from 0) is (65 + i * s) % 128 for a stride s in 0..MaxStride:
\* ASCII text, whose UTF-8 encoding is one byte per character; stride 0 is
\* "AAAA...".
MaxStride == 1
\* The pure-function specification FnSpec draws every length 0..MaxLen.
MaxLen == 860

\* --------------------------------------------------------------- constants
\* getVersion's loop bound: the largest version.
MaxVersion == 20

Null == "null"
Dark == "dark"
Light == "light"

\* qrCodeDataUrl before any QR code was asked for (no text has 0 bytes: the
\* inventory text always has its heading)
NoQR == [count |-> 0, bytes |-> 0]

\* No AI request is in flight: no text was captured.
NoText == [speech |-> <<>>, typed |-> ""]

\* A JS boolean as a cell value.
Cell(b) == IF b THEN Dark ELSE Light

VARIABLES
    pc,         \* the call's position
    data,       \* encodeData(text): the payload bytes
    version,    \* generateQR's version (0 before getVersion)
    matrix,     \* the grid: row index -> column index -> cell (<<>> before createMatrix)
    finderIdx,  \* how many of applyMask's three addFinderPattern calls have run
    pos,        \* getAlignmentPos(version)
    ai, aj,     \* position of applyMask's two loops over pos (1-based)
    bits,       \* fillData's bit stream
    bitIdx,     \* fillData's i: the next bit of the stream to place
    col, dir,   \* fillData's zigzag cursor
    rewritten,  \* history: the cells that were written while already set
    oob,        \* history: a stamp addressed a cell outside the grid
    result,     \* "none" while running, "grid" once generateQR returned the matrix
    visited,    \* history: the cells the last strip of the zigzag visited, in order
    strips,     \* history: <<right column, direction>> of every strip so far
    placedCount, \* history: how many cells the zigzag has written so far
    alignLog,   \* history: every position pair of applyMask's loops, with its outcome
    calls,      \* two calls interleaved: call -> its locals (data, version, cursors, ...)
    grids,      \* two calls interleaved: array -> the matrix it holds
    streams,    \* two calls interleaved: array -> the bit stream it holds
    cursors,    \* two calls interleaved: variable -> the bit index i it holds
    alone,      \* two calls interleaved: call -> the same call run by itself
    showOnboarding, \* the app: the onboarding modal is shown
    items,          \* the app: the inventory, a list of items
    manualInput,    \* the app: the text typed into the text area
    isProcessing,   \* the app: an AI request is in flight
    showQR,         \* the app: the QR modal is shown
    qrRequested,    \* the app: the inventory last handed to QRCode.toDataURL
    speechSupported,  \* speech: the browser has a SpeechRecognition
    isRecording,      \* speech: the record button shows "Tap to stop"
    transcription,    \* speech: the final segments shown, oldest first
    recognitionRef,   \* speech: recognitionRef.current is set
    shouldRestartRef, \* speech: shouldRestartRef.current
    recognizer,       \* speech: the browser's recognizer: idle, listening, stopping, ending
    timers,           \* speech: how many restart timers of onend are pending
    textToProcess,    \* speech: the text the AI request in flight was sent with
    tapped,           \* history: the user's last tap on the record button
    finals,           \* history: how many final segments the recognizer has delivered
    processed,        \* history: the segments sent in the AI requests that succeeded
    cards,            \* the cards of the inventory list: index -> isEditing, editData
    staleSave         \* history: a Save of an unchanged form has replaced an item

concVars == <<calls, grids, streams, cursors, alone>>

speechVars == <<speechSupported, isRecording, transcription, recognitionRef,
                shouldRestartRef, recognizer, timers, textToProcess, tapped,
                finals, processed>>

cardVars == <<cards, staleSave>>

appVars == <<showOnboarding, items, manualInput, isProcessing, showQR, qrRequested,
             speechVars, cardVars>>

histVars == <<visited, strips, placedCount, alignLog>>

vars == <<pc, data, version, matrix, finderIdx, pos, ai, aj, bits, bitIdx,
          col, dir, rewritten, oob, result, histVars, concVars, appVars>>

\* ------------------------------------------------------------ getVersion
caps == <<17,32,53,78,106,134,154,192,230,271,321,367,425,458,520,586,644,718,792,858>>

RECURSIVE VersionLoopFrom(_, _)
VersionLoopFrom(v, len) ==
    IF v <= MaxVersion
    THEN IF caps[v] >= len THEN v ELSE VersionLoopFrom(v + 1, len)
    ELSE 20

\* Mutant: the comparison is strict (caps[v-1] > len).
RECURSIVE VersionLoopStrict(_, _)
VersionLoopStrict(v, len) ==
    IF v <= MaxVersion
    THEN IF caps[v] > len THEN v ELSE VersionLoopStrict(v + 1, len)
    ELSE 20

getVersion_strict(len) == VersionLoopStrict(1, len)

\* Mutant: the table index is returned instead of the version.
getVersion_zeroBased(len) == VersionLoopFrom(1, len) - 1

\* Mutant: a length beyond the table falls back to the first version.
RECURSIVE VersionLoopWrap(_, _)
VersionLoopWrap(v, len) ==
    IF v <= MaxVersion
    THEN IF caps[v] >= len THEN v ELSE VersionLoopWrap(v + 1, len)
    ELSE 1

getVersion_wrap(len) == VersionLoopWrap(1, len)

getVersion(len) == VersionLoopFrom(1, len)

\* --------------------------------------------------------------- payloads
PayloadOf(len, s) == [i \in 1..len |-> (65 + (i - 1) * s) % 128]

ScenarioLens == {0, 1, 200}

Lens ==
    UNION {{l \in (caps[v] - MaxSlack)..caps[v] : l >= 0} : v \in 1..MaxVersion}
    \cup (caps[MaxVersion] + 1)..(caps[MaxVersion] + MaxOver)
    \cup ScenarioLens

Payloads == {PayloadOf(l, s) : l \in Lens, s \in 0..MaxStride}

\* Every length up to MaxLen, for the pure functions.
FnPayloads == {PayloadOf(l, s) : l \in 0..MaxLen, s \in 0..MaxStride}

\* ---------------------------------------------------------- createMatrix
\* Mutant: every row is one cell short.
createMatrix_shortRows(size) == [r \in 0..(size - 1) |-> [c \in 0..(size - 2) |-> Null]]

createMatrix(size) == [r \in 0..(size - 1) |-> [c \in 0..(size - 1) |-> Null]]

\* matrix.length
MatrixLength(m) == Cardinality(DOMAIN m)

\* ------------------------------------------------------ addFinderPattern
\* Mutant: the ring test does not bound the other coordinate to 0..6, so
\* the ring's lines run into the border.
FinderValue_unboundedRing(r, c) ==
    Cell(   (c = 0 \/ c = 6)
         \/ (r = 0 \/ r = 6)
         \/ (r >= 2 /\ r <= 4 /\ c >= 2 /\ c <= 4))

\* The value the stamp writes at offset (r, c), r and c in -1..7.
FinderValue(r, c) ==
    Cell(   (r >= 0 /\ r <= 6 /\ (c = 0 \/ c = 6))
         \/ (c >= 0 /\ c <= 6 /\ (r = 0 \/ r = 6))
         \/ (r >= 2 /\ r <= 4 /\ c >= 2 /\ c <= 4))

\* The cells the stamp anchored at (row, col) writes: offsets -1..7, cells
\* outside the grid skipped.
FinderCells(m, row, c0) ==
    {<<rr, cc>> \in ((row - 1)..(row + 7)) \X ((c0 - 1)..(c0 + 7)) :
        ~(rr < 0 \/ cc < 0 \/ rr >= MatrixLength(m) \/ cc >= MatrixLength(m))}

addFinderPattern(m, row, c0) ==
    [rr \in DOMAIN m |-> [cc \in DOMAIN m[rr] |->
        IF /\ rr - row >= -1 /\ rr - row <= 7
           /\ cc - c0 >= -1 /\ cc - c0 <= 7
        THEN FinderValue(rr - row, cc - c0)
        ELSE m[rr][cc]]]

\* applyMask's three calls, in order.
FinderAnchor(m, k) ==
    CASE k = 0 -> <<0, 0>>
      [] k = 1 -> <<MatrixLength(m) - 7, 0>>
      [] k = 2 -> <<0, MatrixLength(m) - 7>>

\* ---------------------------------------------------------------- timing
TimingCells(m) ==
    UNION {{<<6, i>>, <<i, 6>>} : i \in 8..(MatrixLength(m) - 9)}

addTiming(m) ==
    [rr \in DOMAIN m |-> [cc \in DOMAIN m[rr] |->
        IF rr = 6 /\ cc >= 8 /\ cc < MatrixLength(m) - 8 THEN Cell(cc % 2 = 0)
        ELSE IF cc = 6 /\ rr >= 8 /\ rr < MatrixLength(m) - 8 THEN Cell(rr % 2 = 0)
        ELSE m[rr][cc]]]

\* ------------------------------------------------------- getAlignmentPos
RECURSIVE AlignPosLoop(_, _, _, _)
AlignPosLoop(ps, p, intervals, step) ==
    IF Len(ps) <= intervals
    THEN AlignPosLoop(<<p>> \o ps, p - step, intervals, step)
    ELSE ps

\* Mutant: the alignment positions are counted from the last column.
getAlignmentPos_edge(v) == [k \in 1..((v \div 7) + 2) |-> 4 * v + 16 - 6 * (k - 1)]

getAlignmentPos(v) ==
    IF v = 1 THEN <<>>
    ELSE LET intervals == (v \div 7) + 1
             dist == 4 * v + 4
             \* Math.ceil(dist / intervals / 2) * 2
             step == ((dist + 2 * intervals - 1) \div (2 * intervals)) * 2
         IN  AlignPosLoop(<<6>>, dist + 6, intervals, step)

\* --------------------------------------------------- addAlignmentPattern
Abs(x) == IF x < 0 THEN -x ELSE x

\* Mutant: the centre of the stamp is left light.
AlignValue_noCentre(r, c) == Cell(Abs(r) = 2 \/ Abs(c) = 2)

\* Mutant: the mask flips the cells whose row + column is odd.
PlaceCell_maskOdd(m, i, bs, row, cc) ==
    IF m[row][cc] = Null
    THEN LET bit == IF i < Len(bs) THEN bs[i + 1] = 1 ELSE FALSE
             val == IF (row + cc) % 2 = 1 THEN ~bit ELSE bit
         IN  <<[m EXCEPT ![row][cc] = Cell(val)], IF i < Len(bs) THEN i + 1 ELSE i>>
    ELSE <<m, i>>

AlignValue(r, c) == Cell(Abs(r) = 2 \/ Abs(c) = 2 \/ (r = 0 /\ c = 0))

AlignCells(row, c0) == ((row - 2)..(row + 2)) \X ((c0 - 2)..(c0 + 2))

addAlignmentPattern(m, row, c0) ==
    [rr \in DOMAIN m |-> [cc \in DOMAIN m[rr] |->
        IF /\ rr - row >= -2 /\ rr - row <= 2
           /\ cc - c0 >= -2 /\ cc - c0 <= 2
        THEN AlignValue(rr - row, cc - c0)
        ELSE m[rr][cc]]]

\* Mutant: the stamp is placed without looking at the centre cell.
AlignGuard_always(m, row, c0) == TRUE

\* applyMask's guard: matrix[row]?.[col] === null
AlignGuard(m, row, c0) ==
    row \in DOMAIN m /\ c0 \in DOMAIN m[row] /\ m[row][c0] = Null

\* ----------------------------------------------------------- getCapacity
getCapacity(v) ==
    LET total == (v * 4 + 17) * (v * 4 + 17)
        func == 192
                + (IF v > 1 THEN ((v \div 7) + 1) * ((v \div 7) + 1) * 25 - 10 ELSE 0)
                + (IF v > 6 THEN 67 ELSE 0)
    IN  ((total - func) \div 8) - (IF v < 2 THEN 13 ELSE IF v < 7 THEN 22 ELSE 36)

\* ------------------------------------------------- fillData: bit stream
RECURSIVE Pow2(_)
Pow2(n) == IF n = 0 THEN 1 ELSE 2 * Pow2(n - 1)

\* (x >> i) & 1
BitAt(x, i) == (x \div Pow2(i)) % 2

ModeBits == <<0, 1, 0, 0>>

CountWidth(v) == IF v < 10 THEN 8 ELSE 16

CountBits(d, v) ==
    [k \in 1..CountWidth(v) |-> BitAt(Len(d), CountWidth(v) - k)]

\* Mutant: each byte is pushed least significant bit first.
DataBits_lsbFirst(d) ==
    [k \in 1..(8 * Len(d)) |-> BitAt(d[((k - 1) \div 8) + 1], (k - 1) % 8)]

\* Mutant: each byte is pushed as 16 bits.
DataBits_wide(d) ==
    [k \in 1..(16 * Len(d)) |-> BitAt(d[((k - 1) \div 16) + 1], 15 - ((k - 1) % 16))]

DataBits(d) ==
    [k \in 1..(8 * Len(d)) |-> BitAt(d[((k - 1) \div 8) + 1], 7 - ((k - 1) % 8))]

\* while (bits.length % 8 !== 0) bits.push(0), after n bits
Terminator(n) == [k \in 1..((8 - (n % 8)) % 8) |-> 0]

\* Mutant: the padding starts with 0x11.
Padding_startsWith11(n, capacity) ==
    [k \in 1..(IF n < capacity THEN capacity - n ELSE 0) |->
        BitAt(IF ((k - 1) \div 8) % 2 = 0 THEN 17 ELSE 236, 7 - ((k - 1) % 8))]

\* The padding loop after n bits: bytes 0xEC, 0x11, ... most significant
\* bit first, each bit pushed only while bits.length < capacity.
Padding(n, capacity) ==
    [k \in 1..(IF n < capacity THEN capacity - n ELSE 0) |->
        BitAt(IF ((k - 1) \div 8) % 2 = 0 THEN 236 ELSE 17, 7 - ((k - 1) % 8))]

BitStream(d, v) ==
    LET head == ModeBits \o CountBits(d, v) \o DataBits(d)
        term == head \o Terminator(Len(head))
    IN  term \o Padding(Len(term), getCapacity(v) * 8)

\* --------------------------------------------------- fillData: placement
\* Mutant: column 6 is not skipped.
StripColumn_noSkip(c) == c

\* if (col === 6) col--: the strip's right column
StripColumn(c) == IF c = 6 THEN c - 1 ELSE c

\* Mutant: the cell is written whether or not it is null.
PlaceCell_noCheck(m, i, bs, row, cc) ==
    LET bit == IF i < Len(bs) THEN bs[i + 1] = 1 ELSE FALSE
        val == IF (row + cc) % 2 = 0 THEN ~bit ELSE bit
    IN  <<[m EXCEPT ![row][cc] = Cell(val)], IF i < Len(bs) THEN i + 1 ELSE i>>

\* One cell of the zigzag: written only while it is null, with the next
\* stream bit (false once the stream is exhausted), flipped when row + cc
\* is even.  Gives <<matrix, i>>.
PlaceCell(m, i, bs, row, cc) ==
    IF m[row][cc] = Null
    THEN LET bit == IF i < Len(bs) THEN bs[i + 1] = 1 ELSE FALSE
             val == IF (row + cc) % 2 = 0 THEN ~bit ELSE bit
         IN  <<[m EXCEPT ![row][cc] = Cell(val)], IF i < Len(bs) THEN i + 1 ELSE i>>
    ELSE <<m, i>>

\* Mutant: the left column of the strip is taken before the right one.
PlaceRow_leftFirst(m, i, bs, row, c0) ==
    LET left == PlaceCell(m, i, bs, row, c0 - 1)
        right == PlaceCell(left[1], left[2], bs, row, c0)
    IN  <<right[1], right[2], <<<<row, c0 - 1>>, <<row, c0>>>>>>

\* One row of a strip: column c0, then column c0 - 1.  Gives <<matrix, i,
\* the cells visited in order>>.
PlaceRow(m, i, bs, row, c0) ==
    LET right == PlaceCell(m, i, bs, row, c0)
        left == PlaceCell(right[1], right[2], bs, row, c0 - 1)
    IN  <<left[1], left[2], <<<<row, c0>>, <<row, c0 - 1>>>>>>

\* How many times the row loop
\*   for (row = start; row >= 0 && row < size; row += d)
\* runs, d being 1 or -1.
RowCount(start, d, size) ==
    IF ~(start >= 0 /\ start < size) THEN 0
    ELSE IF d < 0 THEN start + 1 ELSE size - start

\* The row loop of one strip: n rows from `row` on in direction d, in the
\* loop's order, each under the loop's condition that the row is in the
\* matrix.  The rows are taken as a first and a second half, the first half
\* placed before the second is entered, so that the evaluation nests log(n)
\* deep instead of n deep.
RECURSIVE PlaceRows(_, _, _, _, _, _, _)
PlaceRows(m, i, bs, row, c0, d, n) ==
    IF row \notin DOMAIN m \/ n = 0 THEN <<m, i, <<>>>>
    ELSE IF n = 1 THEN PlaceRow(m, i, bs, row, c0)
    ELSE LET h == n \div 2
             first == PlaceRows(m, i, bs, row, c0, d, h)
             second == PlaceRows(first[1], first[2], bs, row + d * h, c0, d, n - h)
         IN  <<second[1], second[2], first[3] \o second[3]>>

\* ---------------------------------------------------------------- actions
Init ==
    /\ pc = "getVersion"
    /\ data \in Payloads
    /\ version = 0
    /\ matrix = <<>>
    /\ finderIdx = 0
    /\ pos = <<>>
    /\ ai = 1 /\ aj = 1
    /\ bits = <<>>
    /\ bitIdx = 0
    /\ col = 0 /\ dir = -1
    /\ rewritten = {}
    /\ oob = FALSE
    /\ result = "none"
    /\ visited = <<>> /\ strips = <<>> /\ placedCount = 0 /\ alignLog = <<>>
    /\ calls = <<>> /\ grids = <<>> /\ streams = <<>>
    /\ cursors = <<>> /\ alone = <<>>
    /\ showOnboarding = FALSE /\ items = <<>> /\ manualInput = ""
    /\ isProcessing = FALSE /\ showQR = FALSE /\ qrRequested = NoQR
    /\ speechSupported = FALSE /\ isRecording = FALSE /\ transcription = <<>>
    /\ recognitionRef = FALSE /\ shouldRestartRef = FALSE
    /\ recognizer = "idle" /\ timers = 0 /\ textToProcess = NoText
    /\ tapped = "none" /\ finals = 0 /\ processed = {}
    /\ cards = <<>> /\ staleSave = FALSE

\* generateQR lines 9-10
GetVersion ==
    /\ pc = "getVersion"
    /\ version' = getVersion(Len(data))
    /\ pc' = "createMatrix"
    /\ UNCHANGED <<data, matrix, finderIdx, pos, ai, aj, bits, bitIdx, col, dir,
                   rewritten, oob, result>>
    /\ UNCHANGED <<concVars, appVars, histVars>>

\* generateQR lines 11-12
CreateMatrix ==
    /\ pc = "createMatrix"
    /\ matrix' = createMatrix(version * 4 + 17)
    /\ pc' = "finder"
    /\ UNCHANGED <<data, version, finderIdx, pos, ai, aj, bits, bitIdx, col, dir,
                   rewritten, oob, result>>
    /\ UNCHANGED <<concVars, appVars, histVars>>

\* applyMask lines 37-39, one call per step
AddFinder ==
    /\ pc = "finder"
    /\ LET a == FinderAnchor(matrix, finderIdx)
       IN  /\ matrix' = addFinderPattern(matrix, a[1], a[2])
           /\ rewritten' = rewritten \cup
                {p \in FinderCells(matrix, a[1], a[2]) : matrix[p[1]][p[2]] # Null}
    /\ finderIdx' = finderIdx + 1
    /\ pc' = IF finderIdx = 2 THEN "timing" ELSE "finder"
    /\ UNCHANGED <<data, version, pos, ai, aj, bits, bitIdx, col, dir, oob, result>>
    /\ UNCHANGED <<concVars, appVars, histVars>>

\* applyMask lines 41-43
AddTiming ==
    /\ pc = "timing"
    /\ matrix' = addTiming(matrix)
    /\ rewritten' = rewritten \cup
            {p \in TimingCells(matrix) : matrix[p[1]][p[2]] # Null}
    /\ pc' = "alignBegin"
    /\ UNCHANGED <<data, version, finderIdx, pos, ai, aj, bits, bitIdx, col, dir,
                   oob, result>>
    /\ UNCHANGED <<concVars, appVars, histVars>>

\* applyMask lines 45-46
AlignBegin ==
    /\ pc = "alignBegin"
    /\ IF version > 1
       THEN pos' = getAlignmentPos(version) /\ pc' = "align"
       ELSE pos' = pos /\ pc' = "bits"
    /\ ai' = 1 /\ aj' = 1
    /\ UNCHANGED <<data, version, matrix, finderIdx, bits, bitIdx, col, dir,
                   rewritten, oob, result>>
    /\ UNCHANGED <<concVars, appVars, histVars>>

\* applyMask lines 47-52: one (row, col) pair of the two loops over pos
AlignStep ==
    /\ pc = "align"
    /\ ai <= Len(pos)
    /\ LET row == pos[ai]
           c0 == pos[aj]
       IN  IF AlignGuard(matrix, row, c0)
           THEN /\ matrix' = addAlignmentPattern(matrix, row, c0)
                /\ rewritten' = rewritten \cup
                      {p \in AlignCells(row, c0) :
                          /\ p[1] \in DOMAIN matrix
                          /\ p[2] \in DOMAIN matrix[p[1]]
                          /\ matrix[p[1]][p[2]] # Null}
                /\ oob' = (oob \/ \E p \in AlignCells(row, c0) :
                              ~(p[1] \in DOMAIN matrix /\ p[2] \in DOMAIN matrix[p[1]]))
           ELSE UNCHANGED <<matrix, rewritten, oob>>
    /\ alignLog' = Append(alignLog,
            [row |-> pos[ai], column |-> pos[aj],
             centre |-> matrix[pos[ai]][pos[aj]],
             placed |-> AlignGuard(matrix, pos[ai], pos[aj])])
    /\ IF aj < Len(pos)
       THEN aj' = aj + 1 /\ ai' = ai
       ELSE aj' = 1 /\ ai' = ai + 1
    /\ pc' = "align"
    /\ UNCHANGED <<data, version, finderIdx, pos, bits, bitIdx, col, dir, result>>
    /\ UNCHANGED <<concVars, appVars, visited, strips, placedCount>>

\* the loops over pos are exhausted
AlignEnd ==
    /\ pc = "align"
    /\ ai > Len(pos)
    /\ pc' = "bits"
    /\ UNCHANGED <<data, version, matrix, finderIdx, pos, ai, aj, bits, bitIdx,
                   col, dir, rewritten, oob, result>>
    /\ UNCHANGED <<concVars, appVars, histVars>>

\* fillData lines 91-113
BuildBits ==
    /\ pc = "bits"
    /\ bits' = BitStream(data, version)
    /\ bitIdx' = 0
    /\ dir' = -1
    /\ col' = MatrixLength(matrix) - 1
    /\ pc' = "place"
    /\ UNCHANGED <<data, version, matrix, finderIdx, pos, ai, aj, rewritten, oob,
                   result>>
    /\ UNCHANGED <<concVars, appVars, histVars>>

\* fillData lines 114-127: one iteration of the column loop
PlaceStrip ==
    /\ pc = "place"
    /\ col > 0
    /\ LET size == MatrixLength(matrix)
           c0 == StripColumn(col)
           start == IF dir < 0 THEN size - 1 ELSE 0
           placed == PlaceRows(matrix, bitIdx, bits, start, c0, dir,
                               RowCount(start, dir, size))
       IN  /\ matrix' = placed[1]
           /\ bitIdx' = placed[2]
           /\ col' = c0 - 2
           /\ visited' = placed[3]
           /\ strips' = Append(strips, <<c0, dir>>)
           /\ placedCount' = placedCount + Cardinality(
                  {p \in (DOMAIN matrix) \X {c0, c0 - 1} : matrix[p[1]][p[2]] = Null})
           /\ oob' = (oob \/ ~(c0 \in DOMAIN matrix[start] /\ c0 - 1 \in DOMAIN matrix[start]))
    /\ dir' = -dir
    /\ pc' = "place"
    /\ UNCHANGED <<data, version, finderIdx, pos, ai, aj, bits, rewritten, result>>
    /\ UNCHANGED <<concVars, appVars, alignLog>>

\* the column loop ends; applyMask and generateQR return the matrix
Return ==
    /\ pc = "place"
    /\ ~(col > 0)
    /\ pc' = "done"
    /\ result' = "grid"
    /\ UNCHANGED <<data, version, matrix, finderIdx, pos, ai, aj, bits, bitIdx,
                   col, dir, rewritten, oob>>
    /\ UNCHANGED <<concVars, appVars, histVars>>

Next ==
    \/ GetVersion
    \/ CreateMatrix
    \/ AddFinder
    \/ AddTiming
    \/ AlignBegin
    \/ AlignStep
    \/ AlignEnd
    \/ BuildBits
    \/ PlaceStrip
    \/ Return

Spec == Init /\ [][Next]_vars

\* ------------------------------------------------- the pure functions
\* getVersion, createMatrix and fillData's bit-stream builder applied to a
\* payload of every length 0..MaxLen (the bit stream depends on the payload
\* and the version only, not on the matrix).
FnInit ==
    /\ pc = "fnVersion"
    /\ data \in FnPayloads
    /\ version = 0
    /\ matrix = <<>>
    /\ finderIdx = 0
    /\ pos = <<>>
    /\ ai = 1 /\ aj = 1
    /\ bits = <<>>
    /\ bitIdx = 0
    /\ col = 0 /\ dir = -1
    /\ rewritten = {}
    /\ oob = FALSE
    /\ result = "none"
    /\ visited = <<>> /\ strips = <<>> /\ placedCount = 0 /\ alignLog = <<>>
    /\ calls = <<>> /\ grids = <<>> /\ streams = <<>>
    /\ cursors = <<>> /\ alone = <<>>
    /\ showOnboarding = FALSE /\ items = <<>> /\ manualInput = ""
    /\ isProcessing = FALSE /\ showQR = FALSE /\ qrRequested = NoQR
    /\ speechSupported = FALSE /\ isRecording = FALSE /\ transcription = <<>>
    /\ recognitionRef = FALSE /\ shouldRestartRef = FALSE
    /\ recognizer = "idle" /\ timers = 0 /\ textToProcess = NoText
    /\ tapped = "none" /\ finals = 0 /\ processed = {}
    /\ cards = <<>> /\ staleSave = FALSE

FnGetVersion ==
    /\ pc = "fnVersion"
    /\ version' = getVersion(Len(data))
    /\ pc' = "fnMatrix"
    /\ UNCHANGED <<data, matrix, finderIdx, pos, ai, aj, bits, bitIdx, col, dir,
                   rewritten, oob, result>>
    /\ UNCHANGED <<concVars, appVars, histVars>>

FnCreateMatrix ==
    /\ pc = "fnMatrix"
    /\ matrix' = createMatrix(version * 4 + 17)
    /\ pc' = "fnBits"
    /\ UNCHANGED <<data, version, finderIdx, pos, ai, aj, bits, bitIdx, col, dir,
                   rewritten, oob, result>>
    /\ UNCHANGED <<concVars, appVars, histVars>>

FnBitStream ==
    /\ pc = "fnBits"
    /\ bits' = BitStream(data, version)
    /\ pc' = "fnDone"
    /\ UNCHANGED <<data, version, matrix, finderIdx, pos, ai, aj, bitIdx, col, dir,
                   rewritten, oob, result>>
    /\ UNCHANGED <<concVars, appVars, histVars>>

FnNext ==
    \/ FnGetVersion
    \/ FnCreateMatrix
    \/ FnBitStream

FnSpec == FnInit /\ [][FnNext]_vars

\* ------------------------------------------------ two calls interleaved
\* Two generateQR calls whose steps are interleaved in any order.  A call's
\* locals are its own; its matrix, its bit stream and its bit index live in
\* the arrays and the variable that the call's declarations create, named
\* here by the call that declared them.  Next to each call the same call is
\* run by itself, on a matrix, a bit stream and an index of its own.
CallIds == {1, 2}

\* The two payloads are drawn from the payloads that fill versions
\* 1..MaxConcVersion, as "AAA..." and as "ABC...".
MaxConcVersion == 2

ConcPayloads == {PayloadOf(caps[v], s) : v \in 1..MaxConcVersion, s \in 0..1}

\* Mutant: the bit stream is one array of the closure, used by every call.
BitsStore_shared(c) == 1

\* Mutant: the bit index is one variable of the closure, used by every call.
IndexStore_shared(c) == 1

\* const matrix = createMatrix(size): the array call c fills is the one it made
MatrixStore(c) == c

\* const bits = []: the array call c pushes to and reads is the one it made
BitsStore(c) == c

\* for (let i = 0; ...): the index call c advances is its own
IndexStore(c) == c

\* A call's locals before its first step.
CallLocals(d) ==
    [pc |-> "getVersion", data |-> d, version |-> 0, finderIdx |-> 0,
     pos |-> <<>>, ai |-> 1, aj |-> 1, col |-> 0, dir |-> -1, result |-> <<>>]

\* One step of a call with locals st on the matrix m, the bit stream bs and
\* the bit index i: the step's outcome for all four.
CallStep(st, m, bs, i) ==
    CASE st.pc = "getVersion" ->
            [st |-> [st EXCEPT !.version = getVersion(Len(st.data)),
                               !.pc = "createMatrix"],
             m |-> m, bs |-> bs, i |-> i]
      [] st.pc = "createMatrix" ->
            [st |-> [st EXCEPT !.pc = "finder"],
             m |-> createMatrix(st.version * 4 + 17), bs |-> bs, i |-> i]
      [] st.pc = "finder" ->
            LET a == FinderAnchor(m, st.finderIdx)
            IN  [st |-> [st EXCEPT !.finderIdx = @ + 1,
                                   !.pc = IF st.finderIdx = 2 THEN "timing" ELSE "finder"],
                 m |-> addFinderPattern(m, a[1], a[2]), bs |-> bs, i |-> i]
      [] st.pc = "timing" ->
            [st |-> [st EXCEPT !.pc = "alignBegin"],
             m |-> addTiming(m), bs |-> bs, i |-> i]
      [] st.pc = "alignBegin" ->
            [st |-> [st EXCEPT !.pos = IF st.version > 1
                                       THEN getAlignmentPos(st.version) ELSE @,
                               !.ai = 1, !.aj = 1,
                               !.pc = IF st.version > 1 THEN "align" ELSE "bits"],
             m |-> m, bs |-> bs, i |-> i]
      [] st.pc = "align" ->
            IF st.ai <= Len(st.pos)
            THEN LET row == st.pos[st.ai]
                     c0 == st.pos[st.aj]
                 IN  [st |-> [st EXCEPT !.aj = IF st.aj < Len(st.pos) THEN @ + 1 ELSE 1,
                                        !.ai = IF st.aj < Len(st.pos) THEN @ ELSE @ + 1],
                      m |-> IF AlignGuard(m, row, c0)
                            THEN addAlignmentPattern(m, row, c0) ELSE m,
                      bs |-> bs, i |-> i]
            ELSE [st |-> [st EXCEPT !.pc = "bits"], m |-> m, bs |-> bs, i |-> i]
      [] st.pc = "bits" ->
            [st |-> [st EXCEPT !.dir = -1, !.col = MatrixLength(m) - 1, !.pc = "place"],
             m |-> m, bs |-> BitStream(st.data, st.version), i |-> 0]
      [] st.pc = "place" ->
            IF st.col > 0
            THEN LET size == MatrixLength(m)
                     c0 == StripColumn(st.col)
                     start == IF st.dir < 0 THEN size - 1 ELSE 0
                     placed == PlaceRows(m, i, bs, start, c0, st.dir,
                                         RowCount(start, st.dir, size))
                 IN  [st |-> [st EXCEPT !.col = c0 - 2, !.dir = -st.dir],
                      m |-> placed[1], bs |-> bs, i |-> placed[2]]
            ELSE [st |-> [st EXCEPT !.pc = "done", !.result = m],
                  m |-> m, bs |-> bs, i |-> i]

ConcInit ==
    /\ pc = "twoCalls"
    /\ data = <<>>
    /\ version = 0
    /\ matrix = <<>>
    /\ finderIdx = 0
    /\ pos = <<>>
    /\ ai = 1 /\ aj = 1
    /\ bits = <<>>
    /\ bitIdx = 0
    /\ col = 0 /\ dir = -1
    /\ rewritten = {}
    /\ oob = FALSE
    /\ result = "none"
    /\ visited = <<>> /\ strips = <<>> /\ placedCount = 0 /\ alignLog = <<>>
    /\ \E d1 \in ConcPayloads, d2 \in ConcPayloads :
          /\ calls = [c \in CallIds |-> CallLocals(IF c = 1 THEN d1 ELSE d2)]
          /\ alone = [c \in CallIds |->
                        [st |-> CallLocals(IF c = 1 THEN d1 ELSE d2),
                         m |-> <<>>, bs |-> <<>>, i |-> 0]]
    /\ grids = [c \in CallIds |-> <<>>]
    /\ streams = [c \in CallIds |-> <<>>]
    /\ cursors = [c \in CallIds |-> 0]
    /\ showOnboarding = FALSE /\ items = <<>> /\ manualInput = ""
    /\ isProcessing = FALSE /\ showQR = FALSE /\ qrRequested = NoQR
    /\ speechSupported = FALSE /\ isRecording = FALSE /\ transcription = <<>>
    /\ recognitionRef = FALSE /\ shouldRestartRef = FALSE
    /\ recognizer = "idle" /\ timers = 0 /\ textToProcess = NoText
    /\ tapped = "none" /\ finals = 0 /\ processed = {}
    /\ cards = <<>> /\ staleSave = FALSE

\* Call c takes its next step.
ConcStep(c) ==
    /\ calls[c].pc # "done"
    /\ LET r == CallStep(calls[c], grids[MatrixStore(c)], streams[BitsStore(c)],
                         cursors[IndexStore(c)])
           a == CallStep(alone[c].st, alone[c].m, alone[c].bs, alone[c].i)
       IN  /\ calls' = [calls EXCEPT ![c] = r.st]
           /\ grids' = [grids EXCEPT ![MatrixStore(c)] = r.m]
           /\ streams' = [streams EXCEPT ![BitsStore(c)] = r.bs]
           /\ cursors' = [cursors EXCEPT ![IndexStore(c)] = r.i]
           /\ alone' = [alone EXCEPT ![c] = a]
    /\ UNCHANGED <<pc, data, version, matrix, finderIdx, pos, ai, aj, bits, bitIdx,
                   col, dir, rewritten, oob, result, histVars, appVars>>

ConcNext == \E c \in CallIds : ConcStep(c)

ConcSpec == ConcInit /\ [][ConcNext]_vars

\* ----------------------------------------------------------------- the app
\* PatientBelongingsApp of src/src/App.jsx: the inventory, the AI request
\* that appends to it, and the QR modal.  A text is modelled by its length
\* in UTF-8 bytes, an item by the lengths of its title and description and
\* its category.
\* The inventory holds at most MaxItems items.
MaxItems == 3

\* new Date().toLocaleString(), in bytes ("12/31/2026, 11:59:59 PM")
TimestampBytes == 23

\* The description lengths the user or the AI can produce.
DescBytes == {17, 600, 1200}

\* { title: 'New Item', category: 'other', description: 'Enter description' }
NewItem == [title |-> 8, category |-> "other", description |-> 17]

\* The items an edit or an AI answer can hold.
TextItems == {[title |-> 6, category |-> "jewelry", description |-> d] : d \in DescBytes}

\* An AI answer: parsed.items, a list of 0, 1 or 2 items.
AiAnswers == {<<>>} \cup {<<x>> : x \in TextItems} \cup {<<x, y>> : x \in TextItems, y \in TextItems}

\* The length of the decimal numeral of n.
RECURSIVE Digits(_)
Digits(n) == IF n < 10 THEN 1 ELSE 1 + Digits(n \div 10)

\* The label of the item's category, in bytes; an unknown category gets
\* the label of CATEGORIES[6].
CategoryLabelBytes(category) ==
    CASE category = "clothing" -> 8
      [] category = "electronics" -> 11
      [] category = "documents" -> 9
      [] category = "jewelry" -> 7
      [] category = "accessories" -> 11
      [] category = "medical" -> 7
      [] OTHER -> 5

\* `${i + 1}. ${item.title}\n   Category: ${cat.label}\n   ${item.description}\n\n`
\* for the item at index i (from 0), in bytes
ItemBytes(its, i) ==
    Digits(i + 1) + 2 + its[i + 1].title + 1
    + 3 + 10 + CategoryLabelBytes(its[i + 1].category) + 1
    + 3 + its[i + 1].description + 2

RECURSIVE ItemsBytes(_, _)
ItemsBytes(its, i) ==
    IF i >= Len(its) THEN 0 ELSE ItemBytes(its, i) + ItemsBytes(its, i + 1)

\* getByteSize(generateInventoryText()): the box-drawing rule is 30
\* characters of 3 bytes each.
InventoryBytes(its) ==
    (28 + 1 + 11 + TimestampBytes + 1 + 90 + 2)
    + ItemsBytes(its, 0)
    + (90 + 1 + 13 + Digits(Len(its)))

canGenerateQR(its) == Len(its) > 0 /\ InventoryBytes(its) <= 2000

\* SizeIndicator's status.  percentage is Math.min(currentBytes / maxBytes
\* * 100, 100); the comparisons are made here on percentage * maxBytes.
SizeStatus(currentBytes, maxBytes) ==
    LET scaled == IF currentBytes * 100 < 100 * maxBytes
                  THEN currentBytes * 100 ELSE 100 * maxBytes
    IN  IF scaled > 100 * maxBytes THEN "danger"
        ELSE IF scaled > 75 * maxBytes THEN "warning"
        ELSE "safe"

\* The effect on [showQR, inventoryText]: after a render that changed one
\* of them, with the modal shown, the inventory text is handed to
\* QRCode.toDataURL.
QREffect(show, its, oldShow, oldIts, requested) ==
    IF (show # oldShow \/ its # oldIts) /\ show
    THEN [count |-> Len(its), bytes |-> InventoryBytes(its)]
    ELSE requested

\* The page behind the modals takes the user's clicks and keys.
PageActive == ~showOnboarding /\ ~showQR

AppInit ==
    /\ pc = "app"
    /\ data = <<>>
    /\ version = 0
    /\ matrix = <<>>
    /\ finderIdx = 0
    /\ pos = <<>>
    /\ ai = 1 /\ aj = 1
    /\ bits = <<>>
    /\ bitIdx = 0
    /\ col = 0 /\ dir = -1
    /\ rewritten = {}
    /\ oob = FALSE
    /\ result = "none"
    /\ visited = <<>> /\ strips = <<>> /\ placedCount = 0 /\ alignLog = <<>>
    /\ calls = <<>> /\ grids = <<>> /\ streams = <<>>
    /\ cursors = <<>> /\ alone = <<>>
    /\ showOnboarding = TRUE
    /\ items = <<>>
    /\ manualInput = ""
    /\ isProcessing = FALSE
    /\ showQR = FALSE
    /\ qrRequested = NoQR
    /\ speechSupported = FALSE /\ isRecording = FALSE /\ transcription = <<>>
    /\ recognitionRef = FALSE /\ shouldRestartRef = FALSE
    /\ recognizer = "idle" /\ timers = 0 /\ textToProcess = NoText
    /\ tapped = "none" /\ finals = 0 /\ processed = {}
    /\ cards = <<>> /\ staleSave = FALSE

encVars == <<pc, data, version, matrix, finderIdx, pos, ai, aj, bits, bitIdx,
             col, dir, rewritten, oob, result, histVars>>

\* OnboardingModal's onAccept
AcceptOnboarding ==
    /\ showOnboarding
    /\ showOnboarding' = FALSE
    /\ UNCHANGED <<items, manualInput, isProcessing, showQR, qrRequested>>
    /\ UNCHANGED <<encVars, concVars, speechVars, cardVars>>

\* the text area's onChange
TypeManualInput ==
    /\ PageActive
    /\ \E t \in {"", "text"} : manualInput' = t
    /\ UNCHANGED <<showOnboarding, items, isProcessing, showQR, qrRequested>>
    /\ UNCHANGED <<encVars, concVars, speechVars, cardVars>>

\* A card when it mounts: useState(false), useState(item).  typed is
\* history: a field of the form was changed since the form was opened.
MountCard(item) == [isEditing |-> FALSE, editData |-> item, typed |-> FALSE]

\* The cards after a render of items.map(... key={index} ...): the card of
\* an index that had a card keeps its state, the card of a new index
\* mounts, the cards beyond the list unmount.
Rerender(cs, its) ==
    [k \in 1..Len(its) |-> IF k <= Len(cs) THEN cs[k] ELSE MountCard(its[k])]

\* const textToProcess = transcription || manualInput
TextToProcess(speech, typed) ==
    [speech |-> speech, typed |-> IF speech # <<>> THEN "" ELSE typed]

\* processTranscription up to its await; the button is disabled while both
\* texts are blank
ProcessStart ==
    /\ PageActive
    /\ ~isProcessing
    /\ transcription # <<>> \/ manualInput # ""
    /\ textToProcess' = TextToProcess(transcription, manualInput)
    /\ isProcessing' = TRUE
    /\ UNCHANGED <<showOnboarding, items, manualInput, showQR, qrRequested>>
    /\ UNCHANGED <<speechSupported, isRecording, transcription, recognitionRef,
                   shouldRestartRef, recognizer, timers, tapped, finals, processed>>
    /\ UNCHANGED <<encVars, concVars, cardVars>>

\* The elements of a sequence.
Range(q) == {q[k] : k \in DOMAIN q}

\* setTranscription('') once the answer is parsed
AfterAnswer(speech) == <<>>

\* processTranscription after its await, the answer parsed
ProcessSucceed ==
    /\ isProcessing
    /\ \E answer \in AiAnswers :
          /\ Len(items) + Len(answer) <= MaxItems
          /\ items' = items \o answer
    /\ transcription' = AfterAnswer(transcription)
    /\ manualInput' = ""
    /\ isProcessing' = FALSE
    /\ qrRequested' = QREffect(showQR, items', showQR, items, qrRequested)
    /\ processed' = processed \cup Range(textToProcess.speech)
    /\ textToProcess' = NoText
    /\ UNCHANGED <<showOnboarding, showQR>>
    /\ cards' = Rerender(cards, items')
    /\ UNCHANGED <<speechSupported, isRecording, recognitionRef, shouldRestartRef,
                   recognizer, timers, tapped, finals, staleSave>>
    /\ UNCHANGED <<encVars, concVars>>

\* processTranscription after its await, the request or the parse failed
ProcessFail ==
    /\ isProcessing
    /\ isProcessing' = FALSE
    /\ textToProcess' = NoText
    /\ UNCHANGED <<showOnboarding, items, manualInput, showQR, qrRequested>>
    /\ UNCHANGED <<speechSupported, isRecording, transcription, recognitionRef,
                   shouldRestartRef, recognizer, timers, tapped, finals, processed>>
    /\ UNCHANGED <<encVars, concVars, cardVars>>

\* the "+ Add Item" button
AddItem ==
    /\ PageActive
    /\ Len(items) < MaxItems
    /\ items' = Append(items, NewItem)
    /\ cards' = Rerender(cards, items')
    /\ qrRequested' = QREffect(showQR, items', showQR, items, qrRequested)
    /\ UNCHANGED <<showOnboarding, manualInput, isProcessing, showQR, staleSave>>
    /\ UNCHANGED <<encVars, concVars, speechVars>>

\* a card's edit button: setIsEditing(true)
EditCard ==
    /\ PageActive
    /\ \E i \in 0..(Len(items) - 1) :
          /\ ~cards[i + 1].isEditing
          /\ cards' = [cards EXCEPT ![i + 1].isEditing = TRUE, ![i + 1].typed = FALSE]
    /\ UNCHANGED <<showOnboarding, items, manualInput, isProcessing, showQR,
                   qrRequested, staleSave>>
    /\ UNCHANGED <<encVars, concVars, speechVars>>

\* the form's onChange handlers: setEditData({...editData, field}), until
\* the form holds d
ChangeCard ==
    /\ PageActive
    /\ \E i \in 0..(Len(items) - 1), d \in TextItems \cup {NewItem} :
          /\ cards[i + 1].isEditing
          /\ d # cards[i + 1].editData
          /\ cards' = [cards EXCEPT ![i + 1].editData = d, ![i + 1].typed = TRUE]
    /\ UNCHANGED <<showOnboarding, items, manualInput, isProcessing, showQR,
                   qrRequested, staleSave>>
    /\ UNCHANGED <<encVars, concVars, speechVars>>

\* the form's Cancel: setEditData(item); setIsEditing(false)
CancelCard ==
    /\ PageActive
    /\ \E i \in 0..(Len(items) - 1) :
          /\ cards[i + 1].isEditing
          /\ cards' = [cards EXCEPT ![i + 1] = MountCard(items[i + 1])]
    /\ UNCHANGED <<showOnboarding, items, manualInput, isProcessing, showQR,
                   qrRequested, staleSave>>
    /\ UNCHANGED <<encVars, concVars, speechVars>>

\* the form's Save: onUpdate(index, editData); setIsEditing(false)
UpdateItem ==
    /\ PageActive
    /\ \E i \in 0..(Len(items) - 1) :
          /\ cards[i + 1].isEditing
          /\ items' = [idx \in 1..Len(items) |->
                         IF idx - 1 = i THEN cards[i + 1].editData ELSE items[idx]]
          /\ cards' = [cards EXCEPT ![i + 1].isEditing = FALSE, ![i + 1].typed = FALSE]
          /\ staleSave' = (staleSave \/ (~cards[i + 1].typed /\ items' # items))
    /\ qrRequested' = QREffect(showQR, items', showQR, items, qrRequested)
    /\ UNCHANGED <<showOnboarding, manualInput, isProcessing, showQR>>
    /\ UNCHANGED <<encVars, concVars, speechVars>>

\* onDelete(i): the delete button of a card that shows no form
DeleteItem ==
    /\ PageActive
    /\ \E i \in 0..(Len(items) - 1) :
          /\ ~cards[i + 1].isEditing
          /\ items' = [idx \in 1..(Len(items) - 1) |->
                          IF idx - 1 < i THEN items[idx] ELSE items[idx + 1]]
    /\ cards' = Rerender(cards, items')
    /\ qrRequested' = QREffect(showQR, items', showQR, items, qrRequested)
    /\ UNCHANGED <<showOnboarding, manualInput, isProcessing, showQR, staleSave>>
    /\ UNCHANGED <<encVars, concVars, speechVars>>

\* the "Generate QR Code" button, disabled unless canGenerateQR
OpenQR ==
    /\ PageActive
    /\ Len(items) > 0
    /\ canGenerateQR(items)
    /\ showQR' = TRUE
    /\ qrRequested' = QREffect(showQR', items, showQR, items, qrRequested)
    /\ UNCHANGED <<showOnboarding, items, manualInput, isProcessing>>
    /\ UNCHANGED <<encVars, concVars, speechVars, cardVars>>

\* the modal's Close button or a click on its backdrop
CloseQR ==
    /\ showQR
    /\ showQR' = FALSE
    /\ qrRequested' = QREffect(showQR', items, showQR, items, qrRequested)
    /\ UNCHANGED <<showOnboarding, items, manualInput, isProcessing>>
    /\ UNCHANGED <<encVars, concVars, speechVars, cardVars>>

AppNext ==
    \/ AcceptOnboarding
    \/ TypeManualInput
    \/ ProcessStart
    \/ ProcessSucceed
    \/ ProcessFail
    \/ AddItem
    \/ DeleteItem
    \/ OpenQR
    \/ CloseQR

\* The page with a user who does not open a card's form: the inventory
\* grows by "+ Add Item" and by AI answers and shrinks by delete.
AppSpec == AppInit /\ [][AppNext]_vars

\* The inventory list with its cards' forms, without the QR modal.
CardNext ==
    \/ AcceptOnboarding
    \/ TypeManualInput
    \/ ProcessStart
    \/ ProcessSucceed
    \/ ProcessFail
    \/ AddItem
    \/ EditCard
    \/ ChangeCard
    \/ CancelCard
    \/ UpdateItem
    \/ DeleteItem

CardSpec == AppInit /\ [][CardNext]_vars

\* ------------------------------------------------------- the preview app
\* PatientBelongingsApp of src/PatientBelongingsInventory-preview.jsx
\* (lines 409-846), which draws the QR code with the built-in encoder: the
\* modal's <img> calls renderQRToDataURL(inventoryText), and that calls
\* QRCode.generate, in every render that shows the modal.  The encode call
\* is the state machine of Spec; it runs within the render, so no handler
\* runs before it has returned.  CATEGORIES, the item buttons and
\* generateInventoryText are the same as in src/src/App.jsx.

\* The inventory of the preview runs holds at most MaxPreviewItems items.
MaxPreviewItems == 1

\* encodeData(inventoryText): as many bytes as getByteSize counts; the
\* byte values stand for the text's.
InventoryPayload(its) == PayloadOf(InventoryBytes(its), 1)

\* The encoder's locals at the call QRCode.generate(text) with payload d
\* (at == "getVersion"), and after the call has returned (at == "preview",
\* d == <<>>).
EncoderAt(at, d) ==
    /\ pc' = at
    /\ data' = d
    /\ version' = 0
    /\ matrix' = <<>>
    /\ finderIdx' = 0
    /\ pos' = <<>>
    /\ ai' = 1 /\ aj' = 1
    /\ bits' = <<>>
    /\ bitIdx' = 0
    /\ col' = 0 /\ dir' = -1
    /\ rewritten' = {}
    /\ oob' = FALSE
    /\ result' = "none"
    /\ visited' = <<>> /\ strips' = <<>> /\ placedCount' = 0 /\ alignLog' = <<>>

PreviewInit ==
    /\ pc = "preview"
    /\ data = <<>>
    /\ version = 0
    /\ matrix = <<>>
    /\ finderIdx = 0
    /\ pos = <<>>
    /\ ai = 1 /\ aj = 1
    /\ bits = <<>>
    /\ bitIdx = 0
    /\ col = 0 /\ dir = -1
    /\ rewritten = {}
    /\ oob = FALSE
    /\ result = "none"
    /\ visited = <<>> /\ strips = <<>> /\ placedCount = 0 /\ alignLog = <<>>
    /\ calls = <<>> /\ grids = <<>> /\ streams = <<>>
    /\ cursors = <<>> /\ alone = <<>>
    /\ showOnboarding = TRUE
    /\ items = <<>>
    /\ manualInput = ""
    /\ isProcessing = FALSE
    /\ showQR = FALSE
    /\ qrRequested = NoQR
    /\ speechSupported = FALSE /\ isRecording = FALSE /\ transcription = <<>>
    /\ recognitionRef = FALSE /\ shouldRestartRef = FALSE
    /\ recognizer = "idle" /\ timers = 0 /\ textToProcess = NoText
    /\ tapped = "none" /\ finals = 0 /\ processed = {}
    /\ cards = <<>> /\ staleSave = FALSE

\* the "+ Add Item" button, while the inventory holds fewer than
\* MaxPreviewItems items
PreviewAddItem ==
    /\ Len(items) < MaxPreviewItems
    /\ AddItem

\* the "Generate QR Code" button, disabled unless canGenerateQR; the render
\* that follows shows the modal and enters QRCode.generate
PreviewOpenQR ==
    /\ pc = "preview"
    /\ PageActive
    /\ Len(items) > 0
    /\ canGenerateQR(items)
    /\ showQR' = TRUE
    /\ EncoderAt("getVersion", InventoryPayload(items))
    /\ UNCHANGED <<showOnboarding, items, manualInput, isProcessing, qrRequested>>
    /\ UNCHANGED <<concVars, speechVars, cardVars>>

\* renderQRToDataURL after QRCode.generate has returned: the grid is
\* painted and the render ends
PreviewPainted ==
    /\ pc = "done"
    /\ showQR
    /\ EncoderAt("preview", <<>>)
    /\ UNCHANGED <<concVars, appVars>>

\* the modal's Close button or a click on its backdrop
PreviewCloseQR ==
    /\ pc = "preview"
    /\ showQR
    /\ showQR' = FALSE
    /\ UNCHANGED <<showOnboarding, items, manualInput, isProcessing, qrRequested>>
    /\ UNCHANGED <<encVars, concVars, speechVars, cardVars>>

PreviewNext ==
    \/ AcceptOnboarding
    \/ PreviewAddItem
    \/ EditCard
    \/ ChangeCard
    \/ CancelCard
    \/ UpdateItem
    \/ DeleteItem
    \/ PreviewOpenQR
    \/ Next
    \/ PreviewPainted
    \/ PreviewCloseQR

PreviewSpec == PreviewInit /\ [][PreviewNext]_vars

\* ------------------------------------------------------ speech recognition
\* The record button of src/src/App.jsx in a browser that has a
\* SpeechRecognition: toggleRecording, the recognizer's onresult, onerror
\* and onend handlers, onend's restart timer, and the AI request that
\* takes the transcription.  A final segment is modelled by its number in
\* the order of delivery; error and interimTranscript are only displayed
\* and are left out.
\*
\* The recognizer is the browser's: idle, listening, stopping (stop() was
\* called: it may still deliver the phrase heard so far) or ending (a final
\* result or an error was delivered: only the end event is left).
\* The recognizer delivers at most MaxSegments final segments.
MaxSegments == 1
\* At most MaxTimers restart timers are pending at once.
MaxTimers == 1

\* recognition.start() throws InvalidStateError unless the recognizer is idle
StartThrows(r) == r # "idle"

\* the recognizer after recognition.start(), thrown or not
AfterStart(r) == IF StartThrows(r) THEN r ELSE "listening"

\* the recognizer after recognition.stop()
AfterStop(r) == IF r = "listening" THEN "stopping" ELSE r

\* onend without its restart branch
onend_noRestart(restart, pending, recording) ==
    [timers |-> pending, isRecording |-> recording /\ restart]

\* recognition.onend: the restart timers pending and isRecording after it
onend(restart, pending, recording) ==
    IF restart
    THEN [timers |-> pending + 1, isRecording |-> recording]
    ELSE [timers |-> pending, isRecording |-> FALSE]

\* recognition.onerror: isRecording and shouldRestartRef.current after it
onerror(recording, restart) == [isRecording |-> FALSE, shouldRestartRef |-> restart]

\* the timer's callback: try { recognition.start() } catch (e) {}
RestartCallback(r, restart) == AfterStart(r)

SpeechInit ==
    /\ pc = "app"
    /\ data = <<>>
    /\ version = 0
    /\ matrix = <<>>
    /\ finderIdx = 0
    /\ pos = <<>>
    /\ ai = 1 /\ aj = 1
    /\ bits = <<>>
    /\ bitIdx = 0
    /\ col = 0 /\ dir = -1
    /\ rewritten = {}
    /\ oob = FALSE
    /\ result = "none"
    /\ visited = <<>> /\ strips = <<>> /\ placedCount = 0 /\ alignLog = <<>>
    /\ calls = <<>> /\ grids = <<>> /\ streams = <<>>
    /\ cursors = <<>> /\ alone = <<>>
    /\ showOnboarding = TRUE
    /\ items = <<>>
    /\ manualInput = ""
    /\ isProcessing = FALSE
    /\ showQR = FALSE
    /\ qrRequested = NoQR
    /\ speechSupported = TRUE
    /\ isRecording = FALSE
    /\ transcription = <<>>
    /\ recognitionRef = FALSE
    /\ shouldRestartRef = FALSE
    /\ recognizer = "idle"
    /\ timers = 0
    /\ textToProcess = NoText
    /\ tapped = "none" /\ finals = 0 /\ processed = {}
    /\ cards = <<>> /\ staleSave = FALSE

pageVars == <<showOnboarding, items, manualInput, isProcessing, showQR, qrRequested,
              cardVars>>

\* toggleRecording: a tap on the record button, disabled while processing
ToggleRecording ==
    /\ PageActive
    /\ speechSupported
    /\ ~isProcessing
    /\ IF isRecording
       THEN /\ shouldRestartRef' = FALSE
            /\ recognizer' = AfterStop(recognizer)
            /\ isRecording' = FALSE
            /\ tapped' = "stop"
            /\ UNCHANGED recognitionRef
       ELSE /\ recognitionRef' = TRUE
            /\ shouldRestartRef' = TRUE
            /\ recognizer' = AfterStart(recognizer)
            /\ isRecording' = ~StartThrows(recognizer)
            /\ tapped' = "record"
    /\ UNCHANGED <<speechSupported, transcription, timers, textToProcess, finals,
                   processed>>
    /\ UNCHANGED <<pageVars, encVars, concVars>>

\* recognition.onresult with a final result; continuous is false, so the
\* recognizer ends after it
RecognizerResult ==
    /\ recognizer \in {"listening", "stopping"}
    /\ finals < MaxSegments
    /\ finals' = finals + 1
    /\ transcription' = Append(transcription, finals + 1)
    /\ recognizer' = "ending"
    /\ UNCHANGED <<speechSupported, isRecording, recognitionRef, shouldRestartRef,
                   timers, textToProcess, tapped, processed>>
    /\ UNCHANGED <<pageVars, encVars, concVars>>

\* recognition.onerror ('no-speech', 'network', ...)
RecognizerError ==
    /\ recognizer \in {"listening", "stopping"}
    /\ LET after == onerror(isRecording, shouldRestartRef)
       IN  /\ isRecording' = after.isRecording
           /\ shouldRestartRef' = after.shouldRestartRef
    /\ recognizer' = "ending"
    /\ UNCHANGED <<speechSupported, transcription, recognitionRef, timers,
                   textToProcess, tapped, finals, processed>>
    /\ UNCHANGED <<pageVars, encVars, concVars>>

\* recognition.onend
RecognizerEnd ==
    /\ recognizer # "idle"
    /\ shouldRestartRef => timers < MaxTimers
    /\ LET after == onend(shouldRestartRef, timers, isRecording)
       IN  /\ timers' = after.timers
           /\ isRecording' = after.isRecording
    /\ recognizer' = "idle"
    /\ UNCHANGED <<speechSupported, transcription, recognitionRef, shouldRestartRef,
                   textToProcess, tapped, finals, processed>>
    /\ UNCHANGED <<pageVars, encVars, concVars>>

\* the 100 ms timer of onend fires
RestartTimer ==
    /\ timers > 0
    /\ timers' = timers - 1
    /\ recognizer' = RestartCallback(recognizer, shouldRestartRef)
    /\ UNCHANGED <<speechSupported, isRecording, transcription, recognitionRef,
                   shouldRestartRef, textToProcess, tapped, finals, processed>>
    /\ UNCHANGED <<pageVars, encVars, concVars>>

SpeechNext ==
    \/ AcceptOnboarding
    \/ TypeManualInput
    \/ ToggleRecording
    \/ RecognizerResult
    \/ RecognizerError
    \/ RecognizerEnd
    \/ RestartTimer
    \/ ProcessStart
    \/ ProcessSucceed
    \/ ProcessFail

SpeechSpec == SpeechInit /\ [][SpeechNext]_vars

\* The browser runs a timer that is due.
SpeechLiveSpec == SpeechSpec /\ WF_vars(RestartTimer)

\* ------------------------------------------------------------------ claims
\* The call has a matrix (createMatrix has run).
HasMatrix == pc \notin {"getVersion", "createMatrix", "fnVersion", "fnMatrix"}

\* N = 4v + 17
Side(v) == 4 * v + 17

\* The capacity table as the specification states it, version 1 first.
CapacityTable ==
    <<17, 32, 53, 78, 106, 134, 154, 192, 230, 271,
      321, 367, 425, 458, 520, 586, 644, 718, 792, 858>>

\* C1: a payload longer than the capacity of version 20 makes the encode
\* call report PayloadTooLarge and return no grid.
C1_PayloadTooLarge ==
    Len(data) > CapacityTable[20] =>
        /\ result # "grid"
        /\ pc = "done" => result = "PayloadTooLarge"

\* C2: for every payload length L in 0..858 the selected version is the
\* smallest v in 1..20 whose capacity-table entry covers L; a 1-byte payload
\* gives version 1 and a grid of side 21.
C2_SmallestCoveringVersion ==
    (pc \in {"fnMatrix", "fnBits", "fnDone"} /\ Len(data) <= 858) =>
        /\ version \in 1..20
        /\ CapacityTable[version] >= Len(data)
        /\ version > 1 => CapacityTable[version - 1] < Len(data)
        /\ Len(data) = 1 => version = 1
        /\ (Len(data) = 1 /\ pc = "fnDone") => MatrixLength(matrix) = 21

C2_Witness ==
    pc = "fnDone" /\ Len(data) = 1 /\ version = 1 /\ MatrixLength(matrix) = 21

\* C3 as stated: a payload of exactly 200 bytes is encoded with version 10
\* on a grid of side 57.
C3_Version10Side57 ==
    Len(data) = 200 =>
        /\ pc # "getVersion" => version = 10
        /\ HasMatrix => MatrixLength(matrix) = 57

\* C3 amended: a payload of exactly 200 bytes is encoded with version 9 (230
\* is the ninth entry of the capacity table) on a grid of side 53.
C3_TwoHundredBytes ==
    Len(data) = 200 =>
        /\ pc # "getVersion" => version = 9
        /\ HasMatrix =>
              /\ MatrixLength(matrix) = 53
              /\ \A r \in DOMAIN matrix : Cardinality(DOMAIN matrix[r]) = 53

C3_Witness ==
    /\ pc = "done" /\ result = "grid" /\ Len(data) = 200
    /\ version = 9 /\ MatrixLength(matrix) = 53

\* C4: once the encode call has returned no cell of the grid is null, and
\* every cell of column 6 was already set when data placement began.
C4_NoCellUnset ==
    /\ pc = "bits" => \A r \in DOMAIN matrix : matrix[r][6] # Null
    /\ pc = "done" =>
          \A r \in DOMAIN matrix : \A c \in DOMAIN matrix[r] : matrix[r][c] # Null

C4_Witness ==
    /\ pc = "done" /\ result = "grid" /\ version = MaxVersion
    /\ \A r \in DOMAIN matrix : matrix[r][6] # Null /\ matrix[r][0] # Null

\* C5: first writer wins: no step of an encode call writes a cell that is
\* already set, and a set cell keeps its value in every step.
C5_FirstWriterWins ==
    [][/\ rewritten' = {}
       /\ HasMatrix =>
             \A r \in DOMAIN matrix : \A c \in DOMAIN matrix[r] :
                 matrix[r][c] # Null => matrix'[r][c] = matrix[r][c]]_vars

C5_Witness ==
    /\ pc = "done" /\ result = "grid" /\ version >= 7
    /\ rewritten = {}
    /\ matrix[pos[1]][pos[1]] = Dark
    /\ bitIdx > 0

\* C6: for a payload within the capacity-table entry of its version the bit
\* stream is exactly as long as the version's data capacity in bits.
C6_StreamLengthIsCapacity ==
    (pc = "fnDone" /\ Len(data) <= CapacityTable[version]) =>
        Len(bits) = getCapacity(version) * 8

\* C7: the grid is square with side 4v+17: rows 0..N-1, each with cells
\* 0..N-1, from allocation to the return, and no stamp addresses a cell
\* outside it.
C7_SquareGrid ==
    HasMatrix =>
        /\ DOMAIN matrix = 0..(Side(version) - 1)
        /\ \A r \in DOMAIN matrix : DOMAIN matrix[r] = 0..(Side(version) - 1)
        /\ ~oob

C7_Witness ==
    /\ pc = "done" /\ result = "grid" /\ version = 7
    /\ MatrixLength(matrix) = 45

\* The expected content of a finder area at offset (r, c), r and c in -1..7.
FinderExpected(r, c) ==
    IF r \in 0..6 /\ c \in 0..6
    THEN IF r \in {0, 6} \/ c \in {0, 6} \/ (r \in 2..4 /\ c \in 2..4)
         THEN Dark ELSE Light
    ELSE Light

FinderAreaOk(m, row, c0) ==
    \A r \in -1..7 : \A c \in -1..7 :
        (row + r \in DOMAIN m /\ c0 + c \in DOMAIN m[row + r]) =>
            m[row + r][c0 + c] = FinderExpected(r, c)

\* C8: from the third finder stamp to the return, the three finder areas
\* at (0,0), (0,N-7) and (N-7,0) hold the ring-and-core pattern with a light
\* border, for every version and payload.
C8_FinderAreas ==
    pc \in {"timing", "alignBegin", "align", "bits", "place", "done"} =>
        /\ FinderAreaOk(matrix, 0, 0)
        /\ FinderAreaOk(matrix, 0, Side(version) - 7)
        /\ FinderAreaOk(matrix, Side(version) - 7, 0)

C8_Witness ==
    /\ pc = "done" /\ result = "grid" /\ version = 14
    /\ matrix[0][Side(version) - 1] = Dark
    /\ matrix[Side(version) - 8][0] = Light
    /\ matrix[3][3] = Dark /\ matrix[1][1] = Light

\* C9: from the timing step to the return, cells (6,i) and (i,6) are dark
\* iff i is even, for every i in 8..N-9.
C9_TimingAlternates ==
    pc \in {"alignBegin", "align", "bits", "place", "done"} =>
        \A i \in 8..(Side(version) - 9) :
            /\ matrix[6][i] = (IF i % 2 = 0 THEN Dark ELSE Light)
            /\ matrix[i][6] = (IF i % 2 = 0 THEN Dark ELSE Light)

C9_Witness ==
    /\ pc = "done" /\ result = "grid" /\ version = 7
    /\ matrix[6][8] = Dark /\ matrix[6][9] = Light
    /\ matrix[22][6] = Dark /\ matrix[21][6] = Light

\* Length of mode indicator, count field and data, rounded up to whole
\* bytes by the terminator.
TerminatedLen ==
    (((4 + (IF version < 10 THEN 8 ELSE 16) + 8 * Len(data)) + 7) \div 8) * 8

\* The value of the 8 bits of bs after the first n, most significant first.
ByteAfter(bs, n) ==
    128 * bs[n + 1] + 64 * bs[n + 2] + 32 * bs[n + 3] + 16 * bs[n + 4]
    + 8 * bs[n + 5] + 4 * bs[n + 6] + 2 * bs[n + 7] + bs[n + 8]

\* C10: when the terminated stream is shorter than the capacity, the rest
\* of the stream up to the capacity is whole bytes 0xEC, 0x11, 0xEC, ...
C10_PaddingAlternates ==
    (pc = "fnDone" /\ TerminatedLen < getCapacity(version) * 8) =>
        /\ Len(bits) = getCapacity(version) * 8
        /\ (Len(bits) - TerminatedLen) % 8 = 0
        /\ \A j \in 0..(((Len(bits) - TerminatedLen) \div 8) - 1) :
              ByteAfter(bits, TerminatedLen + 8 * j) = (IF j % 2 = 0 THEN 236 ELSE 17)

C10_Witness ==
    /\ pc = "fnDone" /\ Len(data) = 1
    /\ Len(bits) - TerminatedLen >= 24
    /\ ByteAfter(bits, TerminatedLen) = 236
    /\ ByteAfter(bits, TerminatedLen + 8) = 17
    /\ ByteAfter(bits, TerminatedLen + 16) = 236

\* C11: version selection is monotone: for payload lengths a <= b, lengths
\* beyond 858 included, the version selected for a is at most the version
\* selected for b.
C11_VersionMonotone ==
    pc = "fnMatrix" =>
        \A a \in 0..Len(data) : getVersion(a) <= version

C11_Witness ==
    /\ pc = "fnMatrix" /\ Len(data) = 860 /\ version = 20
    /\ getVersion(858) = 20 /\ getVersion(0) = 1

\* An upper bound of the number of steps an encode call has left: the
\* strips still to place, the position pairs still to visit, the stamps
\* still to make.
StepsLeft ==
    CASE pc = "getVersion" -> Side(MaxVersion) + 26
      [] pc = "createMatrix" -> Side(version) + 25
      [] pc = "finder" -> Side(version) + 24 - finderIdx
      [] pc = "timing" -> Side(version) + 21
      [] pc = "alignBegin" ->
            Side(version) + 4 + ((version \div 7) + 2) * ((version \div 7) + 2)
      [] pc = "align" ->
            Side(version) + 3
            + (IF ai <= Len(pos) THEN (Len(pos) - ai) * Len(pos) + (Len(pos) - aj + 1) ELSE 0)
      [] pc = "bits" -> Side(version) + 2
      [] pc = "place" -> 1 + (IF col > 0 THEN col ELSE 0)
      [] OTHER -> 0

\* C12: for a payload of at most 858 bytes the encode call ends and returns
\* a grid: every step lowers the number of steps left (the loop over the
\* alignment positions runs out of pairs, the column of the zigzag falls to
\* 0 or below), the count reaches 0 only at the return of the grid, and no
\* step addresses a cell outside rows and columns 0..N-1.
C12_EncodingTotal ==
    [][Len(data) <= 858 =>
          /\ StepsLeft' < StepsLeft
          /\ StepsLeft' >= 0
          /\ ~oob'
          /\ pc' = "done" => (result' = "grid" /\ ~(col > 0))
          /\ StepsLeft' = 0 => pc' = "done"]_vars

C12_Witness ==
    /\ pc = "done" /\ result = "grid" /\ ~oob
    /\ Len(data) = 858 /\ version = 20 /\ Len(pos) = 4 /\ col <= 0

\* C13: when the steps of two encode calls are interleaved in any order,
\* each call returns exactly the grid the same call returns when it runs by
\* itself, whatever the two payloads are.
C13_NoInterference ==
    \A c \in CallIds :
        calls[c].pc = "done" =>
            /\ alone[c].st.pc = "done"
            /\ calls[c].result = alone[c].st.result

C13_Witness ==
    /\ calls[1].pc = "done" /\ calls[2].pc = "place"
    /\ calls[1].data # calls[2].data
    /\ calls[1].version = 1 /\ calls[2].version = 2
    /\ MatrixLength(calls[1].result) = 21
    /\ calls[1].result = alone[1].st.result

\* The two calls stand at the same step.
SameStep ==
    /\ calls[1].pc = calls[2].pc
    /\ calls[1].finderIdx = calls[2].finderIdx
    /\ calls[1].ai = calls[2].ai /\ calls[1].aj = calls[2].aj
    /\ calls[1].col = calls[2].col

DocumentedStatus(bytes) ==
    IF bytes > 2000 THEN "danger" ELSE IF bytes > 1500 THEN "warning" ELSE "safe"

\* C15: whenever the size indicator is on the page (the inventory has an
\* item), its status for the inventory's byte size is the documented one:
\* danger above 2000 bytes, warning above 1500 and up to 2000, safe up to
\* 1500.
C15_SizeStatusAsDocumented ==
    (~showOnboarding /\ Len(items) > 0) =>
        SizeStatus(InventoryBytes(items), 2000) = DocumentedStatus(InventoryBytes(items))

\* C16: in every state of the app the QR modal is shown only for an
\* inventory with at least one item and a text of at most 2000 bytes, and
\* only such an inventory was handed to the QR generator.
C16_GenerationBlockedAtLimit ==
    /\ showQR => (Len(items) > 0 /\ InventoryBytes(items) <= 2000)
    /\ qrRequested # NoQR => (qrRequested.count > 0 /\ qrRequested.bytes <= 2000)

\* The value of the character-count field: the w bits after the mode
\* indicator read as a big-endian number, w being 8 or 16.
CountFieldValue(bs, w) ==
    IF w = 8 THEN ByteAfter(bs, 4) ELSE 256 * ByteAfter(bs, 4) + ByteAfter(bs, 12)

\* C17: the bit stream begins with 0,1,0,0; then comes the count field, 8
\* bits when the version is below 10 and 16 bits otherwise, whose
\* big-endian value is the payload length; then every payload byte in
\* payload order, 8 bits each, most significant bit first.
C17_StreamLayout ==
    pc = "fnDone" =>
        LET w == IF version < 10 THEN 8 ELSE 16
        IN  /\ Len(bits) >= 4 + w + 8 * Len(data)
            /\ <<bits[1], bits[2], bits[3], bits[4]>> = <<0, 1, 0, 0>>
            /\ CountFieldValue(bits, w) = Len(data)
            /\ \A j \in 1..Len(data) : ByteAfter(bits, 4 + w + 8 * (j - 1)) = data[j]

C17_Witness ==
    /\ pc = "fnDone" /\ Len(data) = 300 /\ version = 11
    /\ ByteAfter(bits, 4) = 1 /\ ByteAfter(bits, 12) = 44
    /\ data[2] = 66 /\ ByteAfter(bits, 28) = 66

\* The right column of the k-th strip (k from 1) on a grid of side n:
\* n-1, n-3, ..., 8, then 5, 3, 1.
ExpectedStripColumn(k, n) ==
    LET c == n - 1 - 2 * (k - 1) IN IF c > 6 THEN c ELSE c - 1

\* The j-th cell (j from 1) of the strip with right column c0 walked in
\* direction d: rows from n-1 up (d = -1) or from 0 down (d = 1), in each
\* row the right column, then the left.
ExpectedVisit(j, c0, d, n) ==
    <<IF d < 0 THEN n - 1 - ((j - 1) \div 2) ELSE (j - 1) \div 2, c0 - ((j - 1) % 2)>>

ZigzagStrip(c0, d, n) == [j \in 1..(2 * n) |-> ExpectedVisit(j, c0, d, n)]

\* C18: data placement visits the strips (N-1,N-2), (N-3,N-4), ... from
\* right to left, (5,4) after (8,7) and (1,0) last, the first strip upwards
\* and each following strip in the opposite direction, in each row the
\* right column before the left; column 6 is never visited and every other
\* cell exactly once.
C18_ZigzagOrder ==
    pc \in {"place", "done"} =>
        LET n == Side(version)
        IN  /\ \A k \in 1..Len(strips) :
                  strips[k] = <<ExpectedStripColumn(k, n), IF k % 2 = 1 THEN -1 ELSE 1>>
            /\ Len(strips) > 0 =>
                  /\ Len(visited) = 2 * n
                  /\ \A j \in 1..(2 * n) :
                        visited[j] = ExpectedVisit(j, strips[Len(strips)][1],
                                                   strips[Len(strips)][2], n)
            /\ pc = "done" =>
                  /\ Len(strips) = (n - 1) \div 2
                  /\ strips[Len(strips)][1] = 1
                  /\ \A c \in 0..(n - 1) :
                        Cardinality({k \in 1..Len(strips) :
                                        c \in {strips[k][1], strips[k][1] - 1}})
                            = (IF c = 6 THEN 0 ELSE 1)

C18_Witness ==
    /\ pc = "done" /\ result = "grid" /\ version = 20
    /\ Len(strips) = 48
    /\ strips[1] = <<96, -1>> /\ strips[45] = <<8, -1>> /\ strips[46] = <<5, 1>>
    /\ visited[1] = <<0, 1>> /\ visited[2] = <<0, 0>> /\ visited[194] = <<96, 0>>

\* C19: number the cells that are unset when data placement begins 0, 1,
\* 2, ... in zigzag order.  Each strip writes its unset cells, in the
\* strip's order, and only them: cell number k at (row, col) becomes dark
\* iff (b_k = 1) differs from (row + col even), b_k being bit k of the
\* stream, or 0 once the stream is exhausted; the bit index moves on by
\* one per written cell until the stream is exhausted.
C19_DataPlacement ==
    [][/\ (pc = "bits" /\ pc' = "place") => (bitIdx' = 0 /\ placedCount' = 0)
       /\ (pc = "place" /\ pc' = "place") =>
             LET n == Side(version)
                 c0 == IF col = 6 THEN 5 ELSE col
                 IsUnset(p) == matrix[p[1]][p[2]] = Null
                 unset == SelectSeq(ZigzagStrip(c0, dir, n), IsUnset)
             IN  /\ \A j \in 1..Len(unset) :
                       LET p == unset[j]
                           k == placedCount + j - 1
                           b == IF k < Len(bits) THEN bits[k + 1] ELSE 0
                       IN  matrix'[p[1]][p[2]] = Cell((b = 1) # ((p[1] + p[2]) % 2 = 0))
                 /\ placedCount' = placedCount + Len(unset)
                 /\ bitIdx' = (IF placedCount' < Len(bits) THEN placedCount' ELSE Len(bits))
                 /\ \A r \in DOMAIN matrix : \A c \in DOMAIN matrix[r] :
                       (c # c0 /\ c # c0 - 1) => matrix'[r][c] = matrix[r][c]]_vars

C19_Witness ==
    /\ pc = "done" /\ result = "grid" /\ version = 20 /\ Len(data) = 858
    /\ bits[1] = 0 /\ bits[2] = 1 /\ bits[3] = 0
    /\ matrix[96][96] = Dark /\ matrix[96][95] = Dark /\ matrix[95][96] = Light
    /\ placedCount > Len(bits) /\ bitIdx = Len(bits)

\* The 5x5 alignment stamp at offset (r, c) from its centre.
StampExpected(r, c) ==
    IF r \in {-2, 2} \/ c \in {-2, 2} \/ (r = 0 /\ c = 0) THEN Dark ELSE Light

\* C20: version 1 gets no alignment stamp; for versions 2..20 the position
\* list has floor(v/7)+2 entries, contains 6 and has 4v+10 as its largest
\* entry; the loops visit every pair of entries, a pair gets its stamp
\* exactly when its centre cell is unset at that moment, no pair with a
\* coordinate 6 gets one, and every stamp placed is dark on its ring and
\* centre and light on the 8 cells between.
C20_AlignmentPlacement ==
    pc \in {"bits", "place", "done"} =>
        /\ version = 1 => (pos = <<>> /\ alignLog = <<>>)
        /\ version >= 2 =>
              LET intervals == (version \div 7) + 1
                  entries == {pos[k] : k \in 1..Len(pos)}
              IN  /\ Len(pos) = intervals + 1
                  /\ 6 \in entries
                  /\ 4 * version + 10 \in entries
                  /\ \A e \in entries : e <= 4 * version + 10
                  /\ Len(alignLog) = Len(pos) * Len(pos)
                  /\ \A a \in 1..Len(pos) : \A b \in 1..Len(pos) :
                        /\ alignLog[(a - 1) * Len(pos) + b].row = pos[a]
                        /\ alignLog[(a - 1) * Len(pos) + b].column = pos[b]
                  /\ \A k \in 1..Len(alignLog) :
                        LET e == alignLog[k]
                        IN  /\ e.placed <=> (e.centre = Null)
                            /\ (e.row = 6 \/ e.column = 6) => ~e.placed
                            /\ e.placed =>
                                  \A r \in -2..2 : \A c \in -2..2 :
                                      matrix[e.row + r][e.column + c] = StampExpected(r, c)

C20_Witness ==
    /\ pc = "done" /\ result = "grid" /\ version = 7
    /\ pos = <<22, 38, 6>>
    /\ Len(alignLog) = 9
    /\ alignLog[1].placed /\ alignLog[2].placed /\ ~alignLog[3].placed
    /\ ~alignLog[9].placed /\ alignLog[9].centre = Dark
    /\ matrix[22][38] = Dark /\ matrix[22][37] = Light /\ matrix[22][36] = Dark

\* C21: while recording is on (the user's last tap on the record button was
\* "record"), a recognizer that has ended has a restart timer pending, and
\* it is started again: it does not stay idle.  This covers the end that
\* follows a recognition error, after which isRecording is false.
C21_AutoRestart ==
    /\ [](tapped = "record" /\ recognizer = "idle" => timers > 0)
    /\ (tapped = "record" /\ recognizer = "idle")
          ~> (recognizer = "listening" \/ tapped # "record")

\* The recognizer was started again by the timer although an error (or a
\* failed start) had put isRecording back to false.
C21_Witness ==
    /\ tapped = "record"
    /\ ~isRecording
    /\ recognizer = "listening"

\* The cells of the grid that are still unset.
UnsetCells(m) == {p \in (DOMAIN m) \X (DOMAIN m) : m[p[1]][p[2]] = Null}

\* C22: for a payload within the capacity of its version, the cells left
\* unset after the finder, timing and alignment placement are at least as
\* many as the bits of the stream, and at the return every bit of the
\* stream has been written to a cell.
C22_NoBitDropped ==
    /\ pc = "place" /\ strips = <<>> /\ Len(data) <= CapacityTable[version]
          => Cardinality(UnsetCells(matrix)) >= Len(bits)
    /\ pc = "done" /\ Len(data) <= CapacityTable[version]
          => bitIdx = Len(bits) /\ placedCount >= Len(bits)

\* A payload of version 20's full capacity has been placed.
C22_Witness ==
    /\ pc = "done"
    /\ version = MaxVersion
    /\ Len(data) = CapacityTable[MaxVersion]
    /\ bitIdx = Len(bits)
    /\ Len(bits) >= 8 * Len(data)

\* C23: in the preview app, a text that the "Generate QR Code" button lets
\* through to QRCode.generate fits the largest version: the encoder does
\* not clamp the version (the payload fits the version chosen) and at the
\* return every bit of the stream has been written.
C23_GateProtectsEncoder ==
    showQR /\ pc # "preview" =>
        /\ Len(data) <= CapacityTable[MaxVersion]
        /\ version >= 1 => Len(data) <= CapacityTable[version]
        /\ pc = "done" => bitIdx = Len(bits)

\* C24: after a tap on stop the recognizer is not started again before a tap
\* on record: stop() leaves no recognizer listening, so while the user's
\* last tap is "stop" the recognizer is listening only if something
\* started it after the tap.
C24_StopIsFinal ==
    tapped = "stop" => recognizer # "listening"

\* C25: whenever isRecording is false, auto-restart is not armed
\* (shouldRestartRef.current is false) and no restart of the recognizer is
\* pending.
C25_IndicatorMatchesRecognizer ==
    ~isRecording => ~shouldRestartRef /\ timers = 0

\* C26: every final segment the recognizer has delivered is still in the
\* transcription or was part of the text of an AI request that succeeded.
C26_NoSpeechLost ==
    \A k \in 1..finals : k \in Range(transcription) \/ k \in processed

\* C27: a Save of a form in which no field was changed since it was opened
\* leaves the items list as it was.
C27_EditStartsFromItem ==
    ~staleSave

====
